---- MODULE Spec2Model ----
(***************************************************************************)
(* Model of runtime.h: the tagged-value codec, the HeapObject model, the   *)
(* four boxing constructors and print_value.                               *)
(*                                                                         *)
(* A handle and every 64-bit integer is a bit vector: a function from     *)
(* bit position 0 (least significant) .. W-1 to {0, 1}.  Shifts,           *)
(* masks and casts are computed bit by bit, so the word width is the       *)
(* source's and nothing is reduced modulo a smaller power of two.          *)
(*                                                                         *)
(* Allocation: the source uses the results of malloc and strdup unchecked  *)
(* and the specification gives allocation failure no defined path; the     *)
(* model covers the executions in which both return storage.               *)
(***************************************************************************)
EXTENDS Integers, Sequences, FiniteSets, TLC

VARIABLES
  heap,        \* the HeapObjects that exist: address (a word) -> object
  log,         \* history: the constructor calls made so far, in call order
  charSigned,  \* whether plain char is signed (implementation-defined)
  op,          \* the most recent call
  src,         \* where the handle in val came from
  arg,         \* the scalar given to the most recent encoder call
  val,         \* the handle the most recent call produced or was given
  res          \* what the most recent call returned or wrote to stdout

vars == <<heap, log, charSigned, op, src, arg, val, res>>

(***************************************************************************)
(* Words                                                                   *)
(***************************************************************************)

\* int64_t, uint64_t, uintptr_t and a pointer are all W bits wide.
W == 64

Bits == 0..(W - 1)

\* The word holding the C integer n (two's complement, sign-extended), for
\* the small n that fit a model integer.
FromInt(n) ==
  [k \in Bits |-> IF k < 31 THEN (n \div (2 ^ k)) % 2
                  ELSE IF n < 0 THEN 1 ELSE 0]

Zero == [k \in Bits |-> 0]

\* a & b
BitAnd(a, b) == [k \in Bits |-> a[k] * b[k]]

\* a | b
BitOr(a, b) == [k \in Bits |-> IF a[k] = 1 \/ b[k] = 1 THEN 1 ELSE 0]

\* ~a
BitNot(a) == [k \in Bits |-> 1 - a[k]]

\* a << n.  On an int64_t operand this is the two's complement shift that
\* GCC and Clang implement for every operand (the language leaves the shift
\* of a negative or overflowing value undefined).
Shl(a, n) == [k \in Bits |-> IF k < n THEN 0 ELSE a[k - n]]

\* a >> n on an unsigned operand: zeros enter at the top.
Shr(a, n) == [k \in Bits |-> IF k + n < W THEN a[k + n] ELSE 0]

\* a >> n on a signed operand: the sign bit enters at the top.
Sar(a, n) == [k \in Bits |-> IF k + n < W THEN a[k + n] ELSE a[W - 1]]

\* -a as an unsigned word: ~a + 1.
Neg(a) ==
  LET n == BitNot(a)
  IN  [k \in Bits |-> IF \A j \in 0..(k - 1) : n[j] = 1 THEN 1 - n[k] ELSE n[k]]

\* The unsigned value of the n bits of w from bit lo upwards (n at most 16
\* here, so that it fits a model integer).
RECURSIVE Field(_, _, _)
Field(w, lo, n) == IF n = 0 THEN 0 ELSE w[lo] + 2 * Field(w, lo + 1, n - 1)

(***************************************************************************)
(* Type tags and the canonical constants                                   *)
(***************************************************************************)

TAG_MASK_2BIT == FromInt(3)

TAG_MASK == FromInt(7)

INT_TAG == FromInt(1)

BOOL_TAG == FromInt(2)

CHAR_TAG == FromInt(3)

NULL_VAL == FromInt(20)

FALSE_VAL == BOOL_TAG

TRUE_VAL == FromInt(6)

(***************************************************************************)
(* Codec                                                                   *)
(***************************************************************************)

int_to_val(i) == BitOr(Shl(i, 3), INT_TAG)

val_to_int_Logical(v) == Shr(v, 3)

val_to_int(v) == Sar(v, 3)

\* The values of plain char.
CharRange == IF charSigned THEN (-128)..127 ELSE 0..255

\* (uint64_t)c: a negative c converts modulo 2^64, which sign-extends it.
char_to_val(c) == BitOr(Shl(FromInt(c), 3), CHAR_TAG)

\* (char)w: the low eight bits of w, read as a plain char.
CharOf(w) ==
  LET b == Field(w, 0, 8)
  IN  IF charSigned /\ b >= 128 THEN b - 256 ELSE b

val_to_char_Shift4(v) == CharOf(Shr(v, 4))

val_to_char(v) == CharOf(Shr(v, 3))

is_int(v) == BitAnd(v, TAG_MASK) = INT_TAG

is_bool(v) == BitAnd(v, TAG_MASK) = BOOL_TAG

is_char(v) == BitAnd(v, TAG_MASK) = CHAR_TAG

is_heap_ptr(v) == BitAnd(v, TAG_MASK) = Zero

(***************************************************************************)
(* printf conversions                                                      *)
(***************************************************************************)

Digit(d) == <<"0", "1", "2", "3", "4", "5", "6", "7", "8", "9">>[d + 1]

\* The unsigned word u in base 65536, least significant digit first.
Limbs(u) == [j \in 0..((W \div 16) - 1) |-> Field(u, 16 * j, 16)]

\* One long division by ten of the base-65536 number l, from digit j down to
\* digit 0, with remainder r carried in and the quotient collected in q.
RECURSIVE DivTen(_, _, _, _)
DivTen(l, j, r, q) ==
  IF j < 0 THEN [quot |-> q, rem |-> r]
  ELSE LET t == 65536 * r + l[j]
       IN  DivTen(l, j - 1, t % 10, [q EXCEPT ![j] = t \div 10])

\* The decimal digits of the base-65536 number l, most significant first
\* ("" for 0).
RECURSIVE UDigits(_)
UDigits(l) ==
  IF \A j \in DOMAIN l : l[j] = 0 THEN ""
  ELSE LET d == DivTen(l, (W \div 16) - 1, 0, l)
       IN  UDigits(d.quot) \o Digit(d.rem)

\* printf("%lld", x) for the int64_t word x.
PrintfLld(x) ==
  IF x = Zero THEN "0"
  ELSE IF x[W - 1] = 1 THEN "-" \o UDigits(Limbs(Neg(x)))
  ELSE UDigits(Limbs(x))

\* The decimal digits of the natural number n.
RECURSIVE NatDigits(_)
NatDigits(n) == IF n < 10 THEN Digit(n) ELSE NatDigits(n \div 10) \o Digit(n % 10)

\* printf("%f", f) for a double f that is a whole number of eighths, given
\* as that number: such an f has at most three decimals, so the six printed
\* are exact and nothing is rounded.
PrintfF(eighths) ==
  LET m    == IF eighths < 0 THEN -eighths ELSE eighths
      frac == (m % 8) * 125
  IN  (IF eighths < 0 THEN "-" ELSE "") \o NatDigits(m \div 8) \o "."
      \o Digit(frac \div 100) \o Digit((frac \div 10) % 10) \o Digit(frac % 10)
      \o "000"

\* The printable ASCII characters, from code 32 to code 126 (the grave accent,
\* code 96, cannot stand in a string literal and is written by its code).
Ascii ==
  <<" ", "!", "\"", "#", "$", "%", "&", "'", "(", ")", "*", "+", ",", "-", ".", "/",
    "0", "1", "2", "3", "4", "5", "6", "7", "8", "9", ":", ";", "<", "=", ">", "?",
    "@", "A", "B", "C", "D", "E", "F", "G", "H", "I", "J", "K", "L", "M", "N", "O",
    "P", "Q", "R", "S", "T", "U", "V", "W", "X", "Y", "Z", "[", "\\", "]", "^", "_",
    "<96>", "a", "b", "c", "d", "e", "f", "g", "h", "i", "j", "k", "l", "m", "n", "o",
    "p", "q", "r", "s", "t", "u", "v", "w", "x", "y", "z", "{", "|", "}", "~">>

\* printf("%c", c): the one byte (unsigned char)c.  A byte outside printable
\* ASCII is written here as <n>, n its code.
PrintfC(c) ==
  LET b == c % 256
  IN  IF b >= 32 /\ b <= 126 THEN Ascii[b - 31] ELSE "<" \o NatDigits(b) \o ">"

(***************************************************************************)
(* Heap objects                                                            *)
(***************************************************************************)

TYPE_DOUBLE_TAG == 0

TYPE_STRING_TAG == 1

TYPE_PAIR_TAG == 2

TYPE_SYMBOL_TAG == 3

\* A HeapObject is a record with the tag and the one union member the
\* constructor wrote: as_double (a number of eighths), as_string, as_pair
\* (a record of the two handles car and cdr) or as_symbol.

\* The addresses malloc hands out.  A HeapObject holds a double and
\* pointers, so its address is a multiple of eight and never null.
AddrPool == {FromInt(8), FromInt(16), FromInt(24)}

\* An allocator that hands out storage that is still in use.
Malloc_Reuse == AddrPool

\* malloc(sizeof(HeapObject)): any address of storage not in use.  Nothing
\* is ever freed, so every object ever allocated is in use.
Malloc == {a \in AddrPool : a \notin DOMAIN heap}

\* The heap after *obj = o.
Store(obj, o) == [a \in DOMAIN heap \cup {obj} |-> IF a = obj THEN o ELSE heap[a]]

(***************************************************************************)
(* print_value                                                             *)
(***************************************************************************)

RECURSIVE print_value(_)

print_value_NoSpace(v) ==
  IF v = NULL_VAL THEN "null"
  ELSE IF is_int(v) THEN PrintfLld(val_to_int(v))
  ELSE IF is_bool(v) THEN (IF v = TRUE_VAL THEN "#t" ELSE "#f")
  ELSE IF is_char(v) THEN "#\\" \o PrintfC(val_to_char(v))
  ELSE IF is_heap_ptr(v) THEN
    LET obj == heap[v]
    IN  CASE obj.tag = TYPE_DOUBLE_TAG -> PrintfF(obj.as_double)
          [] obj.tag = TYPE_STRING_TAG -> "\"" \o obj.as_string \o "\""
          [] obj.tag = TYPE_PAIR_TAG ->
               "(" \o print_value(obj.as_pair.car) \o "."
                   \o print_value(obj.as_pair.cdr) \o ")"
          [] obj.tag = TYPE_SYMBOL_TAG -> "'" \o obj.as_symbol \o "'"
          [] OTHER -> "<unknown>"
  ELSE "<badval>"

print_value_DefaultBadval(v) ==
  IF v = NULL_VAL THEN "null"
  ELSE IF is_int(v) THEN PrintfLld(val_to_int(v))
  ELSE IF is_bool(v) THEN (IF v = TRUE_VAL THEN "#t" ELSE "#f")
  ELSE IF is_char(v) THEN "#\\" \o PrintfC(val_to_char(v))
  ELSE IF is_heap_ptr(v) THEN
    LET obj == heap[v]
    IN  CASE obj.tag = TYPE_DOUBLE_TAG -> PrintfF(obj.as_double)
          [] obj.tag = TYPE_STRING_TAG -> "\"" \o obj.as_string \o "\""
          [] obj.tag = TYPE_PAIR_TAG ->
               "(" \o print_value(obj.as_pair.car) \o " . "
                   \o print_value(obj.as_pair.cdr) \o ")"
          [] obj.tag = TYPE_SYMBOL_TAG -> "'" \o obj.as_symbol \o "'"
          [] OTHER -> "<badval>"
  ELSE "<badval>"

\* The text print_value(v) writes to stdout.  The handle v, and every
\* handle reached from it through pairs, is an immediate or the address of
\* a HeapObject (the caller's obligation; see Derefable).
print_value(v) ==
  IF v = NULL_VAL THEN "null"
  ELSE IF is_int(v) THEN PrintfLld(val_to_int(v))
  ELSE IF is_bool(v) THEN (IF v = TRUE_VAL THEN "#t" ELSE "#f")
  ELSE IF is_char(v) THEN "#\\" \o PrintfC(val_to_char(v))
  ELSE IF is_heap_ptr(v) THEN
    LET obj == heap[v]
    IN  CASE obj.tag = TYPE_DOUBLE_TAG -> PrintfF(obj.as_double)
          [] obj.tag = TYPE_STRING_TAG -> "\"" \o obj.as_string \o "\""
          [] obj.tag = TYPE_PAIR_TAG ->
               "(" \o print_value(obj.as_pair.car) \o " . "
                   \o print_value(obj.as_pair.cdr) \o ")"
          [] obj.tag = TYPE_SYMBOL_TAG -> "'" \o obj.as_symbol \o "'"
          [] OTHER -> "<unknown>"
  ELSE "<badval>"

\* The number of print_value activations nested inside the call
\* print_value(v), counted up to fuel: each pair adds one level for the
\* deeper of its two recursive calls.
RECURSIVE PrintNesting(_, _)
PrintNesting(v, fuel) ==
  IF fuel = 0 \/ v = NULL_VAL \/ ~is_heap_ptr(v) THEN 0
  ELSE IF heap[v].tag # TYPE_PAIR_TAG THEN 0
  ELSE LET l == PrintNesting(heap[v].as_pair.car, fuel - 1)
           r == PrintNesting(heap[v].as_pair.cdr, fuel - 1)
       IN  1 + (IF l > r THEN l ELSE r)

\* A heap-tagged handle must be the address of a HeapObject for
\* (HeapObject *)v to be read.
Derefable(v) == is_heap_ptr(v) => v \in DOMAIN heap

(***************************************************************************)
(* The calls a client makes                                                *)
(***************************************************************************)

\* Bound on the number of constructor calls in a run.
MaxObjs == 2

\* The integers a client boxes as leaves.
IntLeaves == {1, -20}

DoubleInputs == {-20}

StringInputs == {"hi"}

SymbolInputs == {"x"}

\* The handles a client holds: what the constructors have returned to it,
\* the immediates it encodes and the Null sentinel.
Returned == {log[k].ret : k \in 1..Len(log)}

Leaves == {int_to_val(FromInt(n)) : n \in IntLeaves} \cup {NULL_VAL}

Operands == Leaves \cup Returned

\* What the client prints: the handle the latest constructor call gave it
\* or, before any constructor call, a leaf.
Printable == IF log = <<>> THEN Leaves ELSE {log[Len(log)].ret}

BoxDouble(f) ==
  /\ Len(log) < MaxObjs
  /\ \E obj \in Malloc :
       /\ heap' = Store(obj, [tag |-> TYPE_DOUBLE_TAG, as_double |-> f])
       /\ log' = Append(log, [fn |-> "box_double", args |-> <<f>>, ret |-> obj])
       /\ val' = obj
  /\ op' = "box_double"
  /\ src' = "heap"
  /\ res' = ""
  /\ UNCHANGED <<charSigned, arg>>

BoxString(s) ==
  /\ Len(log) < MaxObjs
  /\ \E obj \in Malloc :
       /\ heap' = Store(obj, [tag |-> TYPE_STRING_TAG, as_string |-> s])
       /\ log' = Append(log, [fn |-> "box_string", args |-> <<s>>, ret |-> obj])
       /\ val' = obj
  /\ op' = "box_string"
  /\ src' = "heap"
  /\ res' = ""
  /\ UNCHANGED <<charSigned, arg>>

\* A cons that stores its arguments in each other's field.
Cons_Swapped(car, cdr) ==
  /\ Len(log) < MaxObjs
  /\ \E obj \in Malloc :
       /\ heap' = Store(obj, [tag |-> TYPE_PAIR_TAG,
                              as_pair |-> [car |-> cdr, cdr |-> car]])
       /\ log' = Append(log, [fn |-> "cons", args |-> <<car, cdr>>, ret |-> obj])
       /\ val' = obj
  /\ op' = "cons"
  /\ src' = "heap"
  /\ res' = ""
  /\ UNCHANGED <<charSigned, arg>>

Cons(car, cdr) ==
  /\ Len(log) < MaxObjs
  /\ \E obj \in Malloc :
       /\ heap' = Store(obj, [tag |-> TYPE_PAIR_TAG,
                              as_pair |-> [car |-> car, cdr |-> cdr]])
       /\ log' = Append(log, [fn |-> "cons", args |-> <<car, cdr>>, ret |-> obj])
       /\ val' = obj
  /\ op' = "cons"
  /\ src' = "heap"
  /\ res' = ""
  /\ UNCHANGED <<charSigned, arg>>

\* A box_symbol that interns: a name boxed before gets the handle it got then.
BoxSymbol_Interned(s) ==
  /\ Len(log) < MaxObjs
  /\ \E obj \in IF \E a \in DOMAIN heap : heap[a] = [tag |-> TYPE_SYMBOL_TAG, as_symbol |-> s]
                THEN {a \in DOMAIN heap : heap[a] = [tag |-> TYPE_SYMBOL_TAG, as_symbol |-> s]}
                ELSE Malloc :
       /\ heap' = Store(obj, [tag |-> TYPE_SYMBOL_TAG, as_symbol |-> s])
       /\ log' = Append(log, [fn |-> "box_symbol", args |-> <<s>>, ret |-> obj])
       /\ val' = obj
  /\ op' = "box_symbol"
  /\ src' = "heap"
  /\ res' = ""
  /\ UNCHANGED <<charSigned, arg>>

BoxSymbol(s) ==
  /\ Len(log) < MaxObjs
  /\ \E obj \in Malloc :
       /\ heap' = Store(obj, [tag |-> TYPE_SYMBOL_TAG, as_symbol |-> s])
       /\ log' = Append(log, [fn |-> "box_symbol", args |-> <<s>>, ret |-> obj])
       /\ val' = obj
  /\ op' = "box_symbol"
  /\ src' = "heap"
  /\ res' = ""
  /\ UNCHANGED <<charSigned, arg>>

\* print_value(v): res is the text this call writes.
PrintValue(v) ==
  /\ Derefable(v)
  /\ op' = "print_value"
  /\ src' = "caller"
  /\ val' = v
  /\ res' = print_value(v)
  /\ UNCHANGED <<heap, log, charSigned, arg>>

\* No char reaches print_value in this specification (Operands holds none),
\* so the signedness of char is not read.
Init ==
  /\ heap = <<>>
  /\ log = <<>>
  /\ charSigned = TRUE
  /\ op = "init"
  /\ src = "none"
  /\ arg = Zero
  /\ val = Zero
  /\ res = ""

Next ==
  \/ \E f \in DoubleInputs : BoxDouble(f)
  \/ \E s \in StringInputs : BoxString(s)
  \/ \E car \in Operands, cdr \in Operands : Cons(car, cdr)
  \/ \E s \in SymbolInputs : BoxSymbol(s)
  \/ \E v \in Printable : PrintValue(v)

Spec == Init /\ [][Next]_vars

(***************************************************************************)
(* The codec on its own: encode, then classify or decode                   *)
(***************************************************************************)

\* Bound on the magnitude of the small integers the inputs are built from.
MaxSmall == 2

\* int64_t inputs: n * 2^s and its complement, for small n, which puts
\* inputs at both ends of the representable range (-2^60 = -1 * 2^60 and
\* 2^60 - 1, its complement), just outside it, and at the ends of int64_t.
IntShifts == {0, 30, 59, 60, 63}

IntInputs ==
  UNION {{Shl(FromInt(n), s), BitNot(Shl(FromInt(n), s))} :
           n \in (-MaxSmall)..MaxSmall, s \in IntShifts}

\* The client takes one of the three canonical constants.
Constants == [NULL_VAL |-> NULL_VAL, FALSE_VAL |-> FALSE_VAL, TRUE_VAL |-> TRUE_VAL]

\* A run takes one input (src says of which kind, arg holds the scalar),
\* encodes it, and then decodes or classifies the handle.
InitCodec ==
  /\ heap = <<>>
  /\ log = <<>>
  /\ charSigned \in BOOLEAN
  /\ op = "init"
  /\ \/ src = "int" /\ arg \in IntInputs
     \/ src = "char" /\ arg \in CharRange
     \/ src \in DOMAIN Constants /\ arg = Zero
  /\ val = Zero
  /\ res = ""

IntToVal ==
  /\ op = "init"
  /\ src = "int"
  /\ op' = "int_to_val"
  /\ val' = int_to_val(arg)
  /\ UNCHANGED <<heap, log, charSigned, src, arg, res>>

ValToInt ==
  /\ op = "int_to_val"
  /\ op' = "val_to_int"
  /\ res' = val_to_int(val)
  /\ UNCHANGED <<heap, log, charSigned, src, arg, val>>

CharToVal ==
  /\ op = "init"
  /\ src = "char"
  /\ op' = "char_to_val"
  /\ val' = char_to_val(arg)
  /\ UNCHANGED <<heap, log, charSigned, src, arg, res>>

ValToChar ==
  /\ op = "char_to_val"
  /\ op' = "val_to_char"
  /\ res' = val_to_char(val)
  /\ UNCHANGED <<heap, log, charSigned, src, arg, val>>

TakeConstant ==
  /\ op = "init"
  /\ src \in DOMAIN Constants
  /\ op' = "constant"
  /\ val' = Constants[src]
  /\ UNCHANGED <<heap, log, charSigned, src, arg, res>>

\* The four predicates applied to the handle just produced.
Classify ==
  /\ op \in {"int_to_val", "char_to_val", "constant"}
  /\ op' = "classify"
  /\ res' = [is_int |-> is_int(val), is_bool |-> is_bool(val),
             is_char |-> is_char(val), is_heap_ptr |-> is_heap_ptr(val)]
  /\ UNCHANGED <<heap, log, charSigned, src, arg, val>>

NextCodec ==
  \/ IntToVal
  \/ ValToInt
  \/ CharToVal
  \/ ValToChar
  \/ TakeConstant
  \/ Classify

SpecCodec == InitCodec /\ [][NextCodec]_vars

(***************************************************************************)
(* print_value on arbitrary words and on objects a caller built by hand    *)
(***************************************************************************)

\* Bound on the magnitude of the words given to print_value.
MaxWord == 24

WordInputs == {FromInt(n) : n \in (-MaxWord)..MaxWord}

\* Values of the uint8_t tag field that no constructor writes.
BadTags == {4, 5, 255}

\* HeapObjects as a constructor leaves them, and the same with the tag
\* overwritten by one no constructor writes.
CallerObjects ==
  {[tag |-> t, as_double |-> 12] : t \in {TYPE_DOUBLE_TAG} \cup BadTags}
  \cup {[tag |-> t, as_string |-> "hi"] : t \in {TYPE_STRING_TAG} \cup BadTags}
  \cup {[tag |-> t, as_pair |-> [car |-> int_to_val(FromInt(1)), cdr |-> NULL_VAL]] :
          t \in {TYPE_PAIR_TAG} \cup BadTags}
  \cup {[tag |-> t, as_symbol |-> "x"] : t \in {TYPE_SYMBOL_TAG} \cup BadTags}

\* One such object at address 16, and at address 32 a pair whose car it is.
CallerHeaps ==
  {(FromInt(16) :> o)
     @@ (FromInt(32) :> [tag |-> TYPE_PAIR_TAG,
                         as_pair |-> [car |-> FromInt(16), cdr |-> FALSE_VAL]]) :
   o \in CallerObjects}

\* A run takes one heap and one word, and prints the word.
InitPrint ==
  /\ heap \in CallerHeaps
  /\ log = <<>>
  /\ charSigned \in BOOLEAN
  /\ op = "init"
  /\ src = "none"
  /\ arg = Zero
  /\ val \in WordInputs \cup DOMAIN heap
  /\ res = ""

NextPrint == op = "init" /\ PrintValue(val)

SpecPrint == InitPrint /\ [][NextPrint]_vars

(***************************************************************************)
(* Properties                                                              *)
(***************************************************************************)

\* The representable range [-2^(W-4), 2^(W-4) - 1]: the integers whose top
\* four bits all equal the sign bit.
InRange(i) == \A k \in (W - 4)..(W - 1) : i[k] = i[W - 1]

\* C1: for every integer i in the representable range [-2^60, 2^60 - 1],
\* decoding the encoded handle gives i back: val_to_int(int_to_val(i)) = i.
C1_IntRoundTrip == (op = "val_to_int" /\ InRange(arg)) => res = arg

\* -2^60, the least representable integer, has been encoded and decoded.
C1_Witness ==
  /\ op = "val_to_int"
  /\ arg = Shl(FromInt(-1), W - 4)
  /\ InRange(arg)
  /\ res = arg

\* C2: the canonical TRUE and FALSE handles are both classified as Boolean
\* by is_bool, and they differ as raw words.
C2_BooleanConstants ==
  /\ (op = "classify" /\ src \in {"TRUE_VAL", "FALSE_VAL"}) => res.is_bool
  /\ (op = "constant" /\ src = "TRUE_VAL") => val # FALSE_VAL

\* C3: print_value writes exactly "#t" for the canonical TRUE handle and
\* exactly "#f" for the canonical FALSE handle.
C3_PrintBooleans ==
  op = "print_value" =>
    /\ val = TRUE_VAL => res = "#t"
    /\ val = FALSE_VAL => res = "#f"

OnlyInt == [is_int |-> TRUE, is_bool |-> FALSE, is_char |-> FALSE, is_heap_ptr |-> FALSE]

OnlyChar == [is_int |-> FALSE, is_bool |-> FALSE, is_char |-> TRUE, is_heap_ptr |-> FALSE]

NoCategory == [is_int |-> FALSE, is_bool |-> FALSE, is_char |-> FALSE, is_heap_ptr |-> FALSE]

\* C4: the immediate categories are disjoint.  An encoded integer satisfies
\* is_int and none of is_bool, is_char, is_heap_ptr; an encoded character
\* satisfies is_char and none of the others; NULL_VAL satisfies none of the
\* four; NULL_VAL, TRUE_VAL and FALSE_VAL are pairwise distinct words and
\* none of them is an encoded integer or an encoded character.
C4_Disjoint ==
  /\ (op = "classify" /\ src = "int") => res = OnlyInt
  /\ (op = "classify" /\ src = "char") => res = OnlyChar
  /\ (op = "classify" /\ src = "NULL_VAL") => res = NoCategory
  /\ op = "constant" =>
       \A other \in DOMAIN Constants \ {src} : val # Constants[other]
  /\ op \in {"int_to_val", "char_to_val"} =>
       \A name \in DOMAIN Constants : val # Constants[name]

\* The character -1 (code point 255 of a signed char) has been encoded and
\* classified as a character only.
C4_Witness ==
  /\ op = "classify"
  /\ src = "char"
  /\ arg = -1
  /\ res = OnlyChar

\* C5: for every 8-bit character c, of a signed or an unsigned char type,
\* val_to_char(char_to_val(c)) = c.
C5_CharRoundTrip == op = "val_to_char" => res = arg

\* The most negative signed char has been encoded and decoded.
C5_Witness ==
  /\ op = "val_to_char"
  /\ charSigned
  /\ arg = -128
  /\ res = -128

\* The constructor call that returned the handle h.
CallOf(h) == log[CHOOSE k \in 1..Len(log) : log[k].ret = h]

\* The handle of each integer leaf.
LeafHandle == [n \in IntLeaves |-> int_to_val(FromInt(n))]

IsIntLeaf(h) == \E n \in IntLeaves : h = LeafHandle[n]

\* h is a tree of pairs built with cons whose leaves are encoded integers
\* or the Null sentinel.
RECURSIVE IsIntTree(_)
IsIntTree(h) ==
  \/ h = NULL_VAL
  \/ IsIntLeaf(h)
  \/ /\ h \in Returned
     /\ CallOf(h).fn = "cons"
     /\ IsIntTree(CallOf(h).args[1])
     /\ IsIntTree(CallOf(h).args[2])

\* The signed decimal numeral of the integer n.
Decimal(n) == IF n < 0 THEN "-" \o NatDigits(-n) ELSE NatDigits(n)

\* The reference serialization of such a tree, read off the calls that
\* built it: Null is "null", an integer its signed decimal, a pair
\* "(" car " . " cdr ")".
RECURSIVE Reference(_)
Reference(h) ==
  IF h = NULL_VAL THEN "null"
  ELSE IF IsIntLeaf(h) THEN Decimal(CHOOSE n \in IntLeaves : h = LeafHandle[n])
  ELSE "(" \o Reference(CallOf(h).args[1]) \o " . "
           \o Reference(CallOf(h).args[2]) \o ")"

\* C6: for every tree of pairs built with cons whose leaves are encoded
\* integers or Null, print_value writes exactly the reference
\* serialization, in dotted-pair notation with no list sugar.
C6_PrintTree == (op = "print_value" /\ IsIntTree(val)) => res = Reference(val)

\* cons(1, cons(-20, Null)) has been printed.
C6_Witness ==
  /\ op = "print_value"
  /\ IsIntTree(val)
  /\ res = "(1 . (-20 . null))"

\* v is not the Null sentinel and its low three bits are 100, 101 or 111.
Reserved(v) == v # NULL_VAL /\ Field(v, 0, 3) \in {4, 5, 7}

\* v is the address of a HeapObject whose tag is none of the four variants.
BadTagged(v) ==
  /\ Field(v, 0, 3) = 0
  /\ v \in DOMAIN heap
  /\ heap[v].tag \notin {TYPE_DOUBLE_TAG, TYPE_STRING_TAG, TYPE_PAIR_TAG, TYPE_SYMBOL_TAG}

\* C7 as claimed: every Invalid handle, a reserved bit pattern or a heap
\* reference to an object with an undefined tag, prints as "<badval>".
C7_InvalidPrintsBadval ==
  (op = "print_value" /\ (Reserved(val) \/ BadTagged(val))) => res = "<badval>"

\* C7 as amended: a handle other than Null whose low three bits are 100,
\* 101 or 111 prints as "<badval>"; a heap reference to an object whose tag
\* is none of the four variants prints as "<unknown>".
C7_InvalidPrints ==
  op = "print_value" =>
    /\ Reserved(val) => res = "<badval>"
    /\ BadTagged(val) => res = "<unknown>"

\* A heap reference to an object with an undefined tag has been printed.
C7_Witness ==
  /\ op = "print_value"
  /\ BadTagged(val)
  /\ res = "<unknown>"

\* C8: every constructor call returns a fresh handle: a heap reference,
\* different from the Null sentinel and from every handle an earlier
\* constructor call returned; two box_symbol calls with equal names return
\* different handles.
C8_FreshHandles ==
  \A k \in 1..Len(log) :
    /\ is_heap_ptr(log[k].ret)
    /\ log[k].ret # NULL_VAL
    /\ \A j \in 1..(k - 1) : log[j].ret # log[k].ret

\* box_symbol has been called twice with the same name.
C8_Witness ==
  \E j \in 1..Len(log), k \in 1..Len(log) :
    /\ j < k
    /\ log[j].fn = "box_symbol"
    /\ log[k].fn = "box_symbol"
    /\ log[j].args = log[k].args
    /\ log[j].ret # log[k].ret

\* The object a constructor call makes of its arguments.
Built(c) ==
  CASE c.fn = "box_double" -> [tag |-> TYPE_DOUBLE_TAG, as_double |-> c.args[1]]
    [] c.fn = "box_string" -> [tag |-> TYPE_STRING_TAG, as_string |-> c.args[1]]
    [] c.fn = "cons" -> [tag |-> TYPE_PAIR_TAG,
                         as_pair |-> [car |-> c.args[1], cdr |-> c.args[2]]]
    [] c.fn = "box_symbol" -> [tag |-> TYPE_SYMBOL_TAG, as_symbol |-> c.args[1]]

HeapIsWhatWasBuilt ==
  /\ DOMAIN heap = Returned
  /\ \A k \in 1..Len(log) : heap[log[k].ret] = Built(log[k])

HeapStepKeepsObjects ==
  /\ \A a \in DOMAIN heap : a \in DOMAIN heap' /\ heap'[a] = heap[a]
  /\ op' = "print_value" => heap' = heap

\* C9: after any sequence of constructor and print_value calls, every
\* HeapObject ever created exists and holds the tag and payload its
\* constructor call was given (for cons, the two handles verbatim); no call
\* changes or removes an existing object, and print_value changes nothing
\* in the heap.
C9_HeapImmutable == []HeapIsWhatWasBuilt /\ [][HeapStepKeepsObjects]_vars

\* A pair made by the first constructor call is intact after a later
\* constructor call and a print_value call.
C9_Witness ==
  /\ op = "print_value"
  /\ Len(log) >= 2
  /\ log[1].fn = "cons"
  /\ log[1].args[1] # log[1].args[2]
  /\ heap[log[1].ret] = Built(log[1])

NumPairs == Cardinality({a \in DOMAIN heap : heap[a].tag = TYPE_PAIR_TAG})

\* C10: the pair graph is acyclic: the car and the cdr of every pair is a
\* non-heap handle or the handle of an object created strictly earlier than
\* the pair.  So print_value terminates on every handle the client holds,
\* nesting no deeper than the number of pairs allocated.
C10_Acyclic ==
  /\ \A k \in 1..Len(log) :
       LET obj == heap[log[k].ret]
       IN  obj.tag = TYPE_PAIR_TAG =>
             \A x \in {obj.as_pair.car, obj.as_pair.cdr} :
               is_heap_ptr(x) => \E j \in 1..(k - 1) : log[j].ret = x
  /\ \A h \in Operands : PrintNesting(h, NumPairs + 1) <= NumPairs

\* A pair whose cdr is a pair has been printed, the recursion as deep as
\* there are pairs.
C10_Witness ==
  /\ op = "print_value"
  /\ NumPairs = 2
  /\ PrintNesting(val, NumPairs + 1) = NumPairs

====
